---- MODULE Spec2Model ----
(***************************************************************************)
(* Model of KeysightB2900.py: the KeysightB2900 device object, its two     *)
(* SMUChannel objects and the pyvisa resource (transport) they talk to.    *)
(*                                                                         *)
(* Every method of the driver is one action.  A method that calls another  *)
(* method is the conjunction of the callee's formula, so an action is the  *)
(* whole call, down to the transport.  Commands are the strings the        *)
(* f-strings of the source build.  Exceptions are values of `result`.      *)
(***************************************************************************)
EXTENDS Integers, Sequences, FiniteSets, TLC

VARIABLES
    obj,      \* "none": no KeysightB2900 yet, "live": constructed, "failed": __init__ raised
    dev,      \* self.dev: None or the pyvisa resource
    dev_id,   \* self.dev_id
    chan,     \* the attributes chan1, chan2 of the device: the SMUChannel objects
    session,  \* the transport resource: "unopened", "open", "closed"
    log,      \* every call the transport resource received, with its reply
    result,   \* what the last call of the public interface returned or raised
    calls,    \* history: the calls of the public interface made so far
    pre       \* history: the state the last call started in

vars == <<obj, dev, dev_id, chan, session, log, result, calls, pre>>

(***************************************************************************)
(* Bounds of the model.                                                    *)
(***************************************************************************)
MaxOps == 3
ScenarioLen == 5

Channels == {"chan1", "chan2"}
Values == {0, 2, 5, 20, 21}
ScenarioValues == {5, 21}
Readings == {"+1.000000E-03", " 5.0 "}
IdnResponses == {"Keysight Technologies,B2902B,MY61390000,5.0.2045.2760",
                 "Agilent Technologies,B2902A,MY51140000,2.0.1225.1700",
                 ""}
RawCommands == {":OUTP1 OFF"}
RawQueries == {":SOUR2:VOLT?"}

(***************************************************************************)
(* Python values.                                                          *)
(***************************************************************************)
None == "None"
Resource == "Resource"

Returned(v) == [raised |-> FALSE, type |-> "", msg |-> "", value |-> v]
Raised(e) == [raised |-> TRUE, type |-> e.type, msg |-> e.msg, value |-> <<>>]
NoValue == <<>>

NotConnectedError == [type |-> "RuntimeError", msg |-> "Device not connected."]
UnexpectedDeviceError == [type |-> "AssertionError", msg |-> "Error: Unexpected device found."]
RangeExceededError ==
    [type |-> "ValueError",
     msg |-> "The limit is not within the range. Please set the range first"]
NoneAttributeError ==
    [type |-> "AttributeError", msg |-> "'NoneType' object has no attribute 'query'"]

\* the `in` operator of Python on two strings
Contains(s, sub) ==
    \E i \in 1..(Len(s) - Len(sub) + 1) : SubSeq(s, i, i + Len(sub) - 1) = sub

\* class constants of KeysightB2900
CHAN1 == "2"
CHAN2 == "1"
CURRENT_MODE == "CURR"
VOLTAGE_MODE == "VOLT"
STATE_ON == "ON"
STATE_OFF == "OFF"

(***************************************************************************)
(* The transport resource (pyvisa): it records what it is sent.            *)
(***************************************************************************)
WriteCall(command) == [m |-> "write", s |-> command, r |-> ""]
QueryCall(query, reply) == [m |-> "query", s |-> query, r |-> reply]
CloseCall == [m |-> "close", s |-> "", r |-> ""]

Raise(e) ==
    /\ result' = Raised(e)
    /\ UNCHANGED <<obj, dev, dev_id, chan, session, log>>

dev_write(command) ==
    /\ log' = Append(log, WriteCall(command))
    /\ result' = Returned(NoValue)
    /\ UNCHANGED <<obj, dev, dev_id, chan, session>>

dev_query(query) ==
    \E reply \in Readings :
        /\ log' = Append(log, QueryCall(query, reply))
        /\ result' = Returned(<<reply>>)
        /\ UNCHANGED <<obj, dev, dev_id, chan, session>>

(***************************************************************************)
(* class KeysightB2900                                                     *)
(***************************************************************************)
SMUChannel_wide(channel) ==
    [channel |-> channel, voltage_range |-> 200, current_range |-> 2]

SMUChannel(channel) ==
    [channel |-> channel, voltage_range |-> 20, current_range |-> 2]

MakeChannels_by_constant ==
    [c \in Channels |-> IF c = "chan1" THEN SMUChannel(CHAN1) ELSE SMUChannel(CHAN2)]

MakeChannels ==
    [c \in Channels |-> IF c = "chan1" THEN SMUChannel("1") ELSE SMUChannel("2")]

__init__ ==
    /\ obj = "none"
    /\ \E reply \in IdnResponses :
        /\ session' = "open"
        /\ dev' = Resource
        /\ log' = Append(log, QueryCall("*IDN?", reply))
        /\ dev_id' = reply
        /\ IF Contains(reply, "B2902B")
           THEN /\ chan' = MakeChannels
                /\ obj' = "live"
                /\ result' = Returned(NoValue)
           ELSE /\ chan' = chan
                /\ obj' = "failed"
                /\ result' = Raised(UnexpectedDeviceError)

close_keep_handle ==
    IF dev # None
    THEN /\ log' = Append(log, CloseCall)
         /\ session' = "closed"
         /\ result' = Returned(NoValue)
         /\ UNCHANGED <<obj, dev, dev_id, chan>>
    ELSE /\ result' = Returned(NoValue)
         /\ UNCHANGED <<obj, dev, dev_id, chan, session, log>>

close ==
    IF dev # None
    THEN /\ log' = Append(log, CloseCall)
         /\ session' = "closed"
         /\ dev' = None
         /\ result' = Returned(NoValue)
         /\ UNCHANGED <<obj, dev_id, chan>>
    ELSE /\ result' = Returned(NoValue)
         /\ UNCHANGED <<obj, dev, dev_id, chan, session, log>>

reset ==
    IF dev = None
    THEN Raise(NotConnectedError)
    ELSE dev_write("*RST")

set_display ==
    /\ result' = Returned(NoValue)
    /\ UNCHANGED <<obj, dev, dev_id, chan, session, log>>

write_command(command) ==
    IF dev = None
    THEN Raise(NotConnectedError)
    ELSE dev_write(command)

write_query(query) ==
    IF dev = None
    THEN Raise(NotConnectedError)
    ELSE dev_query(query)

_set_source_mode(channel, source_mode) ==
    write_command(":SOUR" \o channel \o ":FUNC:MODE " \o source_mode)

_set_limit(channel, sense_mode, value) ==
    write_command(":SENS" \o channel \o ":" \o sense_mode \o ":PROT " \o ToString(value))

_set_level_no_mode(channel, source_mode, value) ==
    write_command(":SOUR" \o channel \o " " \o ToString(value))

_set_level(channel, source_mode, value) ==
    write_command(":SOUR" \o channel \o ":" \o source_mode \o " " \o ToString(value))

_set_output_state(channel, on_off) ==
    write_command(":OUTP" \o channel \o " " \o on_off)

_measure_no_return(channel, mode) ==
    IF dev = None
    THEN Raise(NoneAttributeError)
    ELSE \E reply \in Readings :
            /\ log' = Append(log, QueryCall("MEAS:" \o mode \o "? (@" \o channel \o ")", reply))
            /\ result' = Returned(NoValue)
            /\ UNCHANGED <<obj, dev, dev_id, chan, session>>

_measure(channel, mode) ==
    IF dev = None
    THEN Raise(NoneAttributeError)
    ELSE dev_query("MEAS:" \o mode \o "? (@" \o channel \o ")")

(***************************************************************************)
(* class SMUChannel; self is the attribute of the device that holds it     *)
(***************************************************************************)
set_mode_voltage_source(self) == _set_source_mode(chan[self].channel, VOLTAGE_MODE)

set_mode_current_source(self) == _set_source_mode(chan[self].channel, CURRENT_MODE)

set_voltage_limit_strict(self, value) ==
    IF value < chan[self].voltage_range
    THEN _set_limit(chan[self].channel, CURRENT_MODE, value)
    ELSE Raise(RangeExceededError)

set_voltage_limit_same_mode(self, value) ==
    IF value <= chan[self].voltage_range
    THEN _set_limit(chan[self].channel, VOLTAGE_MODE, value)
    ELSE Raise(RangeExceededError)

set_voltage_limit(self, value) ==
    IF value <= chan[self].voltage_range
    THEN _set_limit(chan[self].channel, CURRENT_MODE, value)
    ELSE Raise(RangeExceededError)

set_current_limit_unchecked(self, value) ==
    _set_limit(chan[self].channel, VOLTAGE_MODE, value)

set_current_limit(self, value) ==
    IF value <= chan[self].current_range
    THEN _set_limit(chan[self].channel, VOLTAGE_MODE, value)
    ELSE Raise(RangeExceededError)

set_voltage(self, value) == _set_level(chan[self].channel, VOLTAGE_MODE, value)

set_current(self, value) == _set_level(chan[self].channel, CURRENT_MODE, value)

enable_output(self) == _set_output_state(chan[self].channel, STATE_ON)

disable_output(self) == _set_output_state(chan[self].channel, STATE_OFF)

measure_voltage(self) == _measure(chan[self].channel, VOLTAGE_MODE)

measure_current(self) == _measure(chan[self].channel, CURRENT_MODE)

(***************************************************************************)
(* The caller: one call of the public interface per step.                  *)
(***************************************************************************)
Call(op, self, value, text) == [op |-> op, self |-> self, value |-> value, text |-> text]

Snapshot == [dev |-> dev, dev_id |-> dev_id, chan |-> chan, session |-> session, log |-> log]

Called(c) ==
    /\ calls' = Append(calls, c)
    /\ pre' = Snapshot

Init ==
    /\ obj = "none"
    /\ dev = None
    /\ dev_id = ""
    /\ chan = <<>>
    /\ session = "unopened"
    /\ log = <<>>
    /\ result = Returned(NoValue)
    /\ calls = <<>>
    /\ pre = Snapshot

Construct == Called(Call("__init__", "", 0, "")) /\ __init__

DoClose == obj = "live" /\ Called(Call("close", "", 0, "")) /\ close

DoReset == obj = "live" /\ Called(Call("reset", "", 0, "")) /\ reset

DoSetDisplay == obj = "live" /\ Called(Call("set_display", "", 0, "")) /\ set_display

DoWriteCommand ==
    /\ obj = "live"
    /\ \E command \in RawCommands :
        Called(Call("write_command", "", 0, command)) /\ write_command(command)

DoWriteQuery ==
    /\ obj = "live"
    /\ \E query \in RawQueries :
        Called(Call("write_query", "", 0, query)) /\ write_query(query)

DoSetModeVoltageSource(self) ==
    obj = "live" /\ Called(Call("set_mode_voltage_source", self, 0, "")) /\ set_mode_voltage_source(self)

DoSetModeCurrentSource(self) ==
    obj = "live" /\ Called(Call("set_mode_current_source", self, 0, "")) /\ set_mode_current_source(self)

DoSetVoltageLimit(self, value) ==
    obj = "live" /\ Called(Call("set_voltage_limit", self, value, "")) /\ set_voltage_limit(self, value)

DoSetCurrentLimit(self, value) ==
    obj = "live" /\ Called(Call("set_current_limit", self, value, "")) /\ set_current_limit(self, value)

DoSetVoltage(self, value) ==
    obj = "live" /\ Called(Call("set_voltage", self, value, "")) /\ set_voltage(self, value)

DoSetCurrent(self, value) ==
    obj = "live" /\ Called(Call("set_current", self, value, "")) /\ set_current(self, value)

DoEnableOutput(self) ==
    obj = "live" /\ Called(Call("enable_output", self, 0, "")) /\ enable_output(self)

DoDisableOutput(self) ==
    obj = "live" /\ Called(Call("disable_output", self, 0, "")) /\ disable_output(self)

DoMeasureVoltage(self) ==
    obj = "live" /\ Called(Call("measure_voltage", self, 0, "")) /\ measure_voltage(self)

DoMeasureCurrent(self) ==
    obj = "live" /\ Called(Call("measure_current", self, 0, "")) /\ measure_current(self)

\* the caller makes at most n calls
Within(n) == Len(calls) < n

Next ==
    \/ Within(MaxOps) /\ Construct
    \/ Within(MaxOps) /\ DoClose
    \/ Within(MaxOps) /\ DoReset
    \/ Within(MaxOps) /\ DoSetDisplay
    \/ Within(MaxOps) /\ DoWriteCommand
    \/ Within(MaxOps) /\ DoWriteQuery
    \/ \E self \in Channels : Within(MaxOps) /\ DoSetModeVoltageSource(self)
    \/ \E self \in Channels : Within(MaxOps) /\ DoSetModeCurrentSource(self)
    \/ \E self \in Channels, value \in Values : Within(MaxOps) /\ DoSetVoltageLimit(self, value)
    \/ \E self \in Channels, value \in Values : Within(MaxOps) /\ DoSetCurrentLimit(self, value)
    \/ \E self \in Channels, value \in Values : Within(MaxOps) /\ DoSetVoltage(self, value)
    \/ \E self \in Channels, value \in Values : Within(MaxOps) /\ DoSetCurrent(self, value)
    \/ \E self \in Channels : Within(MaxOps) /\ DoEnableOutput(self)
    \/ \E self \in Channels : Within(MaxOps) /\ DoDisableOutput(self)
    \/ \E self \in Channels : Within(MaxOps) /\ DoMeasureVoltage(self)
    \/ \E self \in Channels : Within(MaxOps) /\ DoMeasureCurrent(self)

Spec == Init /\ [][Next]_vars

\* A caller that makes only the calls of the end-to-end scenario, in any
\* order, on either channel: long enough for the whole scenario.
ScenarioNext ==
    \/ Within(ScenarioLen) /\ Construct
    \/ \E self \in Channels : Within(ScenarioLen) /\ DoSetModeVoltageSource(self)
    \/ \E self \in Channels, value \in ScenarioValues :
          Within(ScenarioLen) /\ DoSetVoltage(self, value)
    \/ \E self \in Channels : Within(ScenarioLen) /\ DoEnableOutput(self)
    \/ \E self \in Channels : Within(ScenarioLen) /\ DoMeasureCurrent(self)

ScenarioSpec == Init /\ [][ScenarioNext]_vars

(***************************************************************************)
(* Vocabulary of the properties.                                           *)
(***************************************************************************)
Last == calls[Len(calls)]

\* the transport calls the last call of the public interface made
Issued == SubSeq(log, Len(pre.log) + 1, Len(log))

ConnectedBefore == obj = "live" /\ Len(calls) > 1 /\ pre.dev # None

\* close() was called earlier, before the last call
ClosedBefore == \E i \in 1..(Len(calls) - 1) : calls[i].op = "close"

Token(self) == IF self = "chan1" THEN "1" ELSE "2"

ChannelOps ==
    {"set_mode_voltage_source", "set_mode_current_source", "set_voltage_limit",
     "set_current_limit", "set_voltage", "set_current", "enable_output",
     "disable_output", "measure_voltage", "measure_current"}

GuardedOps == ChannelOps \cup {"write_command", "write_query", "reset"}

\* what was sent, without the replies
Sent(calllog) == [i \in 1..Len(calllog) |-> <<calllog[i].m, calllog[i].s>>]

\* the channel a command or query of the instrument's syntax addresses:
\* MEAS:<mode>? (@<chan>)   or   :SOUR<chan>..., :SENS<chan>..., :OUTP<chan>...
ChannelField(s) ==
    IF SubSeq(s, 1, 5) = "MEAS:"
    THEN SubSeq(s, Len(s) - 1, Len(s) - 1)
    ELSE SubSeq(s, 6, 6)

CloseCount == Cardinality({i \in 1..Len(log) : log[i].m = "close"})

\* C1: after close(), every write_command, write_query, reset and channel
\* operation fails with the "not connected" error and issues no transport call.
C1_NotConnectedAfterClose ==
    (Len(calls) > 1 /\ ClosedBefore /\ Last.op \in GuardedOps)
        => (result = Raised(NotConnectedError) /\ Issued = <<>>)

\* C2: a construction whose identity reply lacks "B2902B" fails with the
\* unexpected-device error and leaves the transport handle not open.
C2_FailedConstructionClosesHandle ==
    (Len(calls) = 1 /\ ~Contains(log[1].r, "B2902B"))
        => (result = Raised(UnexpectedDeviceError) /\ session # "open")

\* C3: on a connected device set_voltage_limit(v) succeeds iff v <= 20 and
\* set_current_limit(v) iff v <= 2; otherwise it raises the range error.
C3_LimitAcceptedIffWithinCeiling ==
    ConnectedBefore =>
        /\ Last.op = "set_voltage_limit" =>
              IF Last.value <= 20 THEN result = Returned(NoValue)
                                  ELSE result = Raised(RangeExceededError)
        /\ Last.op = "set_current_limit" =>
              IF Last.value <= 2 THEN result = Returned(NoValue)
                                 ELSE result = Raised(RangeExceededError)

C3_Witness ==
    /\ ConnectedBefore
    /\ Last.op = "set_voltage_limit"
    /\ Last.value = 20
    /\ result = Returned(NoValue)

Scenario(self) ==
    << Call("__init__", "", 0, ""),
       Call("set_mode_voltage_source", self, 0, ""),
       Call("set_voltage", self, 5, ""),
       Call("enable_output", self, 0, ""),
       Call("measure_current", self, 0, "") >>

ScenarioCommands(self) ==
    IF self = "chan1"
    THEN << <<"write", ":SOUR1:FUNC:MODE VOLT">>, <<"write", ":SOUR1:VOLT 5">>,
            <<"write", ":OUTP1 ON">>, <<"query", "MEAS:CURR? (@1)">> >>
    ELSE << <<"write", ":SOUR2:FUNC:MODE VOLT">>, <<"write", ":SOUR2:VOLT 5">>,
            <<"write", ":OUTP2 ON">>, <<"query", "MEAS:CURR? (@2)">> >>

\* C4 as stated: over the scenario connect, set_mode_voltage_source,
\* set_voltage(5), enable_output, measure_current the transport receives the
\* four commands of the channel operations and nothing else.
C4_ScenarioFourCallsOnly ==
    \A self \in Channels :
        calls = Scenario(self) => Sent(log) = ScenarioCommands(self)

\* C4 amended: over the scenario the transport receives the identity query
\* of the construction first and then the four commands, in order: five calls.
C4_ScenarioIdentityThenFourCalls ==
    \A self \in Channels :
        calls = Scenario(self) =>
            Sent(log) = << <<"query", "*IDN?">> >> \o ScenarioCommands(self)

C4_Witness == calls = Scenario("chan2") /\ ~result.raised

\* C5: the first close() closes the transport once and disconnects; every
\* further close() raises nothing, calls nothing and changes nothing.
C5_CloseIdempotent ==
    /\ CloseCount <= 1
    /\ (obj = "live" /\ Last.op = "close") =>
          /\ result = Returned(NoValue)
          /\ dev = None
          /\ session = "closed"
          /\ CloseCount = 1
          /\ IF pre.dev # None
             THEN Issued = <<CloseCall>>
             ELSE /\ Issued = <<>>
                  /\ Snapshot = pre

C5_Witness ==
    /\ Len(calls) = 3
    /\ calls[2].op = "close"
    /\ calls[3].op = "close"

\* C6: on a connected device measure_voltage() (measure_current()) issues
\* exactly one query MEAS:VOLT? (@chan) (MEAS:CURR? (@chan)), no write, and
\* returns the transport's reply unmodified.
C6_MeasureOneQueryRawReply ==
    (ConnectedBefore /\ Last.op \in {"measure_voltage", "measure_current"}) =>
        /\ Len(Issued) = 1
        /\ Issued[1].m = "query"
        /\ Issued[1].s = (IF Last.op = "measure_voltage" THEN "MEAS:VOLT? (@"
                                                         ELSE "MEAS:CURR? (@")
                         \o Token(Last.self) \o ")"
        /\ result = Returned(<<Issued[1].r>>)

C6_Witness ==
    /\ ConnectedBefore
    /\ Last.op = "measure_voltage"
    /\ Last.self = "chan2"
    /\ result = Returned(<<" 5.0 ">>)

\* C7: a successful construction makes exactly the channels "1" and "2", and
\* every command a channel operation issues addresses its own channel.
C7_ChannelAddressesOwnToken ==
    obj = "live" =>
        /\ DOMAIN chan = {"chan1", "chan2"}
        /\ chan["chan1"].channel = "1"
        /\ chan["chan2"].channel = "2"
        /\ Last.op \in ChannelOps =>
              \A i \in 1..Len(Issued) : ChannelField(Issued[i].s) = Token(Last.self)

C7_Witness ==
    /\ obj = "live"
    /\ Last.op = "set_voltage"
    /\ Last.self = "chan1"
    /\ Last.value = 2
    /\ Len(Issued) = 1

\* C8: an accepted set_voltage_limit(v) issues the one command
\* :SENS{chan}:CURR:PROT v, an accepted set_current_limit(v) the one command
\* :SENS{chan}:VOLT:PROT v.
C8_LimitSenseModeInverted ==
    (ConnectedBefore /\ ~result.raised) =>
        /\ Last.op = "set_voltage_limit" =>
              Issued = << WriteCall(":SENS" \o Token(Last.self) \o ":CURR:PROT "
                                    \o ToString(Last.value)) >>
        /\ Last.op = "set_current_limit" =>
              Issued = << WriteCall(":SENS" \o Token(Last.self) \o ":VOLT:PROT "
                                    \o ToString(Last.value)) >>

C8_Witness ==
    /\ ConnectedBefore
    /\ Last.op = "set_voltage_limit"
    /\ Last.value = 5
    /\ Issued = << WriteCall(":SENS1:CURR:PROT 5") >>

Ceiling(op) == IF op = "set_voltage_limit" THEN 20 ELSE 2

\* the value a limit command carries: what follows ":PROT "
CarriesValue(s, value) ==
    LET tail == ":PROT " \o ToString(value)
    IN  Len(s) >= Len(tail) /\ SubSeq(s, Len(s) - Len(tail) + 1, Len(s)) = tail

\* C9: a limit command reaches the transport only with a value within the
\* ceiling of its operation, and a limit call rejected with the range error
\* issues no transport call.
C9_ValidationBeforeSend ==
    (obj = "live" /\ Last.op \in {"set_voltage_limit", "set_current_limit"}) =>
        /\ Issued # <<>> =>
              /\ Last.value <= Ceiling(Last.op)
              /\ Len(Issued) = 1
              /\ CarriesValue(Issued[1].s, Last.value)
        /\ Last.value > Ceiling(Last.op) =>
              /\ result = Raised(RangeExceededError)
              /\ Issued = <<>>

C9_Witness ==
    /\ ConnectedBefore
    /\ Last.op = "set_current_limit"
    /\ Last.value = 5
    /\ result = Raised(RangeExceededError)
    /\ Issued = <<>>

\* C10: no operation changes the ceilings: they stay 20 and 2, and a limit
\* above the ceiling is rejected with the range error whatever came before.
C10_CeilingsFixed ==
    obj = "live" =>
        /\ \A c \in Channels :
              chan[c].voltage_range = 20 /\ chan[c].current_range = 2
        /\ (Last.op = "set_voltage_limit" /\ Last.value > 20) =>
              result = Raised(RangeExceededError)
        /\ (Last.op = "set_current_limit" /\ Last.value > 2) =>
              result = Raised(RangeExceededError)

C10_Witness ==
    /\ Len(calls) = 3
    /\ calls[2].op = "set_voltage_limit"
    /\ calls[2].value = 20
    /\ Last.op = "set_voltage_limit"
    /\ Last.value = 21
    /\ result = Raised(RangeExceededError)
    /\ chan[Last.self].voltage_range = 20

====
